---- MODULE Spec2Model ----
(***************************************************************************)
(* Triptych proofs (src/src/proof.rs): Proof::prove and Proof::verify over *)
(* a prime-order group.                                                    *)
(*                                                                         *)
(* Scalars are the field of order q.  Points are the formal linear         *)
(* combinations of a fixed list of generators with no known relation       *)
(* between them (G, U, CommitmentH, a sampled point R1, and the            *)
(* CommitmentG generators): a point is its coordinate vector.              *)
(* The Fiat-Shamir transcript is a labelled sequence of items; the         *)
(* challenge drawn from it is a fixed but arbitrary function of that       *)
(* sequence, chosen lazily (variable oracle).                              *)
(* A Vec is a function on 0 .. len-1, so indices read as in the source.    *)
(***************************************************************************)
EXTENDS Integers, Sequences, FiniteSets, TLC

\* ------------------------------------------------------------------ bounds
\* index of the scalar field's order in Primes
FieldIdx == 3
\* how many of ParamList's (n, m) pairs are used
NumParams == 2
\* how many seeds of the random number generator are tried
NumSeeds == 3

Primes == <<2, 3, 5, 7, 11, 13>>
q == Primes[FieldIdx]
ParamList == <<[n |-> 2, m |-> 2], [n |-> 2, m |-> 3], [n |-> 3, m |-> 2]>>
ParamSet == {ParamList[i] : i \in 1..NumParams}

\* ----------------------------------------------------------------- scalars
Scalars == 0..(q - 1)
SAdd(x, y) == (x + y) % q
SSub(x, y) == (x - y) % q
SNeg(x) == (0 - x) % q
SMul(x, y) == (x * y) % q
SInv(x) == CHOOSE y \in Scalars : SMul(x, y) = 1

\* ------------------------------------------------------------------- Vecs
\* a function with all of its values computed (TLC otherwise recomputes the
\* body of [x \in S |-> e] at every application)
Vec(v) == v @@ <<>>
VLen(v) == Cardinality(DOMAIN v)
VEmpty == [i \in {} |-> 0]
RECURSIVE SumTo(_, _)
SumTo(v, k) == IF k = 0 THEN 0 ELSE SAdd(SumTo(v, k - 1), v[k - 1])
\* iter().sum::<Scalar>()
VSum(v) == SumTo(Vec(v), VLen(v))
RECURSIVE ProdTo(_, _)
ProdTo(v, k) == IF k = 0 THEN 1 ELSE SMul(ProdTo(v, k - 1), v[k - 1])
\* iter().product::<Scalar>()
VProd(v) == ProdTo(Vec(v), VLen(v))
\* chain of two Vecs
VCat(u, v) ==
    LET lu == VLen(u)
        lv == VLen(v)
    IN  Vec([i \in 0..(lu + lv - 1) |-> IF i < lu THEN u[i] ELSE v[i - lu]])
VOne(x) == [i \in {0} |-> x]
RECURSIVE VChain(_)
\* chain of a sequence of Vecs
VChain(vs) == IF vs = <<>> THEN VEmpty ELSE VCat(Head(vs), VChain(Tail(vs)))
RECURSIVE Pow(_, _)
Pow(b, e) == IF e = 0 THEN 1 ELSE b * Pow(b, e - 1)

\* ------------------------------------------------------------------ points
MaxNM == CHOOSE x \in {p.n * p.m : p \in ParamSet} : \A p \in ParamSet : p.n * p.m <= x
Dim == 4 + MaxNM
PIdentity == Vec([d \in 1..Dim |-> 0])
PBasis(i) == Vec([d \in 1..Dim |-> IF d = i THEN 1 ELSE 0])
PScale(c, P) == Vec([d \in 1..Dim |-> SMul(c, P[d])])
PAdd(P, R) == Vec([d \in 1..Dim |-> SAdd(P[d], R[d])])
\* multiscalar_mul / vartime_multiscalar_mul on equally long iterators
RECURSIVE Dot(_, _, _, _)
\* coordinate d of the sum of scalars[i] * points[i] over i < k
Dot(scalars, points, d, k) ==
    IF k = 0 THEN 0
    ELSE SAdd(Dot(scalars, points, d, k - 1), SMul(scalars[k - 1], points[k - 1][d]))
MultiscalarMul(scalars, points) ==
    LET len == VLen(scalars)
    IN  Vec([d \in 1..Dim |-> Dot(scalars, points, d, len)])

\* -------------------------------------------------------------- Parameters
get_N(params) == Pow(params.n, params.m)
get_G == PBasis(1)
get_U == PBasis(2)
get_CommitmentH == PBasis(3)
\* a point sampled with RistrettoPoint::random
R1 == PBasis(4)
\* CommitmentG as a Vec in row-major order of (j, i)
get_CommitmentG(params) ==
    Vec([k \in 0..(params.n * params.m - 1) |-> PBasis(4 + k + 1)])
\* params.decompose(k): little-endian base-n digits, or an error for k >= N
decompose(params, k) ==
    IF k >= get_N(params)
    THEN [ok |-> FALSE, digits |-> VEmpty]
    ELSE [ok |-> TRUE,
          digits |->
              Vec([j \in 0..(params.m - 1) |-> (k \div Pow(params.n, j)) % params.n])]
\* params.commit_matrix(matrix, mask): an error unless matrix is m x n
commit_matrix(params, matrix, mask) ==
    IF \/ VLen(matrix) /= params.m
       \/ \E j \in DOMAIN matrix : VLen(matrix[j]) /= params.n
    THEN [ok |-> FALSE, point |-> PIdentity]
    ELSE [ok |-> TRUE,
          point |-> MultiscalarMul(
              VCat(VOne(mask),
                   Vec([k \in 0..(params.n * params.m - 1) |->
                           matrix[k \div params.n][k % params.n]])),
              VCat(VOne(get_CommitmentH), get_CommitmentG(params)))]

\* ------------------------------------------------- Witness and Statement
\* Witness::new(params, l, r)
Witness(params, l, r) == [params |-> params, l |-> l, r |-> r]
compute_verification_key(witness) == PScale(witness.r, get_G)
compute_linking_tag(witness) == PScale(SInv(witness.r), get_U)
\* Statement::new(params, input_set, J); M has N entries
Statement(params, M, J) == [params |-> params, M |-> M, J |-> J]

\* ----------------------------------------------- random number generator
\* The caller's generator: a state, stepped once per Scalar::random.
RngStep(s) == (3 * s + 0) % 31
RECURSIVE RngAfter(_, _)
RngAfter(s, k) == IF k = 0 THEN s ELSE RngStep(RngAfter(s, k - 1))
\* the k-th scalar (k = 1, 2, ...) that Scalar::random returns from state s
ScalarRandom(s, k) == RngAfter(s, k) % q

\* -------------------------------------------------------------- transcript
VERSION == 0
NoMessage == [some |-> FALSE, bytes |-> 0]
SomeMessage(b) == [some |-> TRUE, bytes |-> b]
TranscriptNew(label) == <<[label |-> "dom-sep", item |-> label]>>
AppendItem(t, label, item) == Append(t, [label |-> label, item |-> item])
RECURSIVE AppendEach(_, _, _, _)
\* for item in &v { transcript.append_message(label, item) }, from index k on
AppendEach(t, label, v, k) ==
    IF k >= VLen(v) THEN t ELSE AppendEach(AppendItem(t, label, v[k]), label, v, k + 1)
\* transcript.challenge_bytes("xi") reduced with from_bytes_mod_order_wide
ChallengeScalar(orc, t) == orc[AppendItem(t, "xi", "challenge")]

\* Kronecker delta function with scalar output
delta(x, y) == IF x = y THEN 1 ELSE 0

RECURSIVE xi_powers_loop_unchecked(_, _, _, _, _)
\* xi_powers_loop without the test for a zero power
xi_powers_loop_unchecked(xi, left, xi_power, acc, k) ==
    IF left = 0 THEN [ok |-> TRUE, powers |-> acc]
    ELSE xi_powers_loop_unchecked(xi, left - 1, SMul(xi_power, xi),
                                  Vec([i \in 0..k |-> IF i < k THEN acc[i] ELSE xi_power]),
                                  k + 1)

RECURSIVE xi_powers_loop_additive(_, _, _, _, _)
\* xi_powers_loop with xi added to the running power instead of multiplied
xi_powers_loop_additive(xi, left, xi_power, acc, k) ==
    IF left = 0 THEN [ok |-> TRUE, powers |-> acc]
    ELSE IF xi_power = 0 THEN [ok |-> FALSE, powers |-> VEmpty]
    ELSE xi_powers_loop_additive(xi, left - 1, SAdd(xi_power, xi),
                                 Vec([i \in 0..k |-> IF i < k THEN acc[i] ELSE xi_power]),
                                 k + 1)

RECURSIVE xi_powers_loop(_, _, _, _, _)
\* the loop of xi_powers: `left` iterations remain
xi_powers_loop(xi, left, xi_power, acc, k) ==
    IF left = 0 THEN [ok |-> TRUE, powers |-> acc]
    ELSE IF xi_power = 0 THEN [ok |-> FALSE, powers |-> VEmpty]
    ELSE xi_powers_loop(xi, left - 1, SMul(xi_power, xi),
                        Vec([i \in 0..k |-> IF i < k THEN acc[i] ELSE xi_power]), k + 1)
\* xi_powers(transcript, m)
xi_powers(orc, t, m) == xi_powers_loop(ChallengeScalar(orc, t), m + 1, 1, VEmpty, 0)

\* ------------------------------------------------------------ Proof::prove
\* prove_checks without the check of the linking tag
prove_checks_no_tag(witness, statement) ==
    IF witness.params /= statement.params THEN "InvalidParameter"
    ELSE IF witness.l \notin DOMAIN statement.M THEN "InvalidParameter"
    ELSE IF statement.M[witness.l] /= PScale(witness.r, get_G) THEN "InvalidParameter"
    ELSE "Ok"

\* the checks made before the transcript is started
prove_checks(witness, statement) ==
    IF witness.params /= statement.params THEN "InvalidParameter"
    ELSE IF witness.l \notin DOMAIN statement.M THEN "InvalidParameter"
    ELSE IF statement.M[witness.l] /= PScale(witness.r, get_G) THEN "InvalidParameter"
    ELSE IF PScale(witness.r, statement.J) /= get_U THEN "InvalidParameter"
    ELSE "Ok"

\* the transcript as started by prove
prove_transcript_start(statement, message) ==
    LET t0 == AppendItem(TranscriptNew("Triptych proof"), "version", VERSION)
        t1 == IF message.some THEN AppendItem(t0, "message", message.bytes) ELSE t0
        t2 == AppendItem(t1, "params", statement.params)
        t3 == AppendItem(t2, "M", statement.M)
    IN  AppendItem(t3, "J", statement.J)

\* the transcript as updated by prove once A, B, C, D, X, Y are known
prove_transcript_update(t, A, B, C, D, X, Y) ==
    LET tA == AppendItem(t, "A", A)
        tB == AppendItem(tA, "B", B)
        tC == AppendItem(tB, "C", C)
        tD == AppendItem(tC, "D", D)
        tX == AppendEach(tD, "X", X, 0)
    IN  AppendEach(tX, "Y", Y, 0)

\* one round of the convolution loop of prove with rotate_left(1) in place of
\* rotate_right(1)
convolve_round_rotate_left(params, a, sigma, k_decomposed, coefficients, j) ==
    LET m1 == params.m + 1
    IN  Vec([c \in 0..(m1 - 1) |->
                SAdd(SMul(a[j][k_decomposed[j]], coefficients[c]),
                     SMul(sigma[j][k_decomposed[j]], coefficients[(c + 1) % m1]))])

\* one round (the body for one j) of the convolution loop of prove
convolve_round(params, a, sigma, k_decomposed, coefficients, j) ==
    LET m1 == params.m + 1
        degree_0_portion ==
            [c \in 0..(m1 - 1) |-> SMul(a[j][k_decomposed[j]], coefficients[c])]
        \* rotate_right(1)
        shifted_coefficients ==
            [c \in 0..(m1 - 1) |-> coefficients[(c + m1 - 1) % m1]]
        degree_1_portion ==
            [c \in 0..(m1 - 1) |->
                SMul(sigma[j][k_decomposed[j]], shifted_coefficients[c])]
    IN  Vec([c \in 0..(m1 - 1) |->
                SAdd(degree_0_portion[c], degree_1_portion[c])])

RECURSIVE convolve(_, _, _, _, _, _)
\* the convolution loop of prove for one k: rounds j .. m-1 remain
convolve(params, a, sigma, k_decomposed, coefficients, j) ==
    IF j >= params.m THEN coefficients
    ELSE convolve(params, a, sigma, k_decomposed,
                  convolve_round(params, a, sigma, k_decomposed, coefficients, j),
                  j + 1)

\* the coefficients set before the loop, with a and sigma exchanged
convolve_initial_swapped(params, a, sigma, k_decomposed) ==
    Vec([c \in 0..params.m |->
            IF c = 0 THEN sigma[0][k_decomposed[0]]
            ELSE IF c = 1 THEN a[0][k_decomposed[0]]
            ELSE 0])

\* the coefficients set before the loop from the first degree-one polynomial
convolve_initial(params, a, sigma, k_decomposed) ==
    Vec([c \in 0..params.m |->
            IF c = 0 THEN a[0][k_decomposed[0]]
            ELSE IF c = 1 THEN sigma[0][k_decomposed[0]]
            ELSE 0])

\* the coefficient vector p[k] that prove computes
p_coefficients(params, a, sigma, k) ==
    LET k_decomposed == decompose(params, k).digits
    IN  convolve(params, a, sigma, k_decomposed,
                 convolve_initial(params, a, sigma, k_decomposed), 1)

\* everything prove computes before it draws the challenge
prove_commit(witness, statement, message, rng) ==
    LET params == statement.params
        n == params.n
        m == params.m
        M == statement.M
        J == statement.J
        r_A == ScalarRandom(rng, 1)
        a_drawn == Vec([j \in 0..(m - 1) |->
                       Vec([i \in 0..(n - 1) |-> ScalarRandom(rng, 2 + j * n + i)])])
        a == Vec([j \in 0..(m - 1) |->
                 Vec([i \in 0..(n - 1) |->
                     IF i = 0
                     THEN SNeg(VSum([x \in 0..(n - 2) |-> a_drawn[j][x + 1]]))
                     ELSE a_drawn[j][i]])])
        A == commit_matrix(params, a, r_A)
        r_B == ScalarRandom(rng, 2 + m * n)
        l_decomposed == decompose(params, witness.l)
        sigma == Vec([j \in 0..(m - 1) |->
                     Vec([i \in 0..(n - 1) |-> delta(l_decomposed.digits[j], i)])])
        B == commit_matrix(params, sigma, r_B)
        two == 2 % q
        r_C == ScalarRandom(rng, 3 + m * n)
        a_sigma == Vec([j \in 0..(m - 1) |->
                       Vec([i \in 0..(n - 1) |->
                           SMul(a[j][i], SSub(1, SMul(two, sigma[j][i])))])])
        C == commit_matrix(params, a_sigma, r_C)
        r_D == ScalarRandom(rng, 4 + m * n)
        a_square == Vec([j \in 0..(m - 1) |->
                        Vec([i \in 0..(n - 1) |-> SMul(SNeg(a[j][i]), a[j][i])])])
        D == commit_matrix(params, a_square, r_D)
        rho == Vec([j \in 0..(m - 1) |-> ScalarRandom(rng, 5 + m * n + j)])
        p == Vec([k \in 0..(get_N(params) - 1) |-> p_coefficients(params, a, sigma, k)])
        X == Vec([j \in 0..(m - 1) |->
                 MultiscalarMul(
                     VCat([k \in DOMAIN p |-> p[k][j]], VOne(rho[j])),
                     VCat(M, VOne(get_G)))])
        Y == Vec([j \in 0..(m - 1) |-> PScale(rho[j], J)])
    IN  [ok |-> A.ok /\ l_decomposed.ok /\ B.ok /\ C.ok /\ D.ok,
         r_A |-> r_A, r_B |-> r_B, r_C |-> r_C, r_D |-> r_D,
         a |-> a, sigma |-> sigma, rho |-> rho, p |-> p,
         A |-> A.point, B |-> B.point, C |-> C.point, D |-> D.point,
         X |-> X, Y |-> Y,
         rng |-> RngAfter(rng, 4 + m * n + m),
         transcript |->
             prove_transcript_update(prove_transcript_start(statement, message),
                                     A.point, B.point, C.point, D.point, X, Y)]

NoProof == [A |-> PIdentity, B |-> PIdentity, C |-> PIdentity, D |-> PIdentity,
            X |-> VEmpty, Y |-> VEmpty, f |-> VEmpty, z_A |-> 0, z_C |-> 0, z |-> 0]
NoSecrets == [a |-> VEmpty, sigma |-> VEmpty, rho |-> VEmpty,
              r_A |-> 0, r_B |-> 0, r_C |-> 0, r_D |-> 0]

\* what prove does once A, B, C, D, X, Y are in the transcript (the value c of
\* prove_commit): the challenge powers, the f matrix and the responses
prove_respond(witness, statement, c, orc) ==
    LET params == statement.params
        n == params.n
        m == params.m
        powers == xi_powers(orc, c.transcript, m)
        xi == powers.powers
        secrets == [a |-> c.a, sigma |-> c.sigma, rho |-> c.rho,
                    r_A |-> c.r_A, r_B |-> c.r_B, r_C |-> c.r_C, r_D |-> c.r_D]
    IN  IF ~c.ok
        THEN [result |-> "InvalidParameter", proof |-> NoProof, rng |-> c.rng,
              transcript |-> c.transcript, xi |-> 0, secrets |-> NoSecrets]
        ELSE IF ~powers.ok
        THEN [result |-> "InvalidChallenge", proof |-> NoProof, rng |-> c.rng,
              transcript |-> AppendItem(c.transcript, "xi", "challenge"),
              xi |-> ChallengeScalar(orc, c.transcript), secrets |-> secrets]
        ELSE
        LET f == Vec([j \in 0..(m - 1) |->
                     Vec([i \in 0..(n - 2) |->
                         SAdd(SMul(c.sigma[j][i + 1], xi[1]), c.a[j][i + 1])])])
            z_A == SAdd(c.r_A, SMul(xi[1], c.r_B))
            z_C == SAdd(SMul(xi[1], c.r_C), c.r_D)
            z == SSub(SMul(witness.r, xi[m]),
                      VSum([j \in 0..(m - 1) |-> SMul(c.rho[j], xi[j])]))
        IN  [result |-> "Ok",
             proof |-> [A |-> c.A, B |-> c.B, C |-> c.C, D |-> c.D,
                        X |-> c.X, Y |-> c.Y, f |-> f,
                        z_A |-> z_A, z_C |-> z_C, z |-> z],
             rng |-> c.rng,
             transcript |-> AppendItem(c.transcript, "xi", "challenge"),
             xi |-> xi[1], secrets |-> secrets]

\* Proof::prove(witness, statement, message, rng), the transcript's challenge
\* function being orc.  The result also carries what the call left behind:
\* the generator's state, the transcript, and the prover's secret values.
prove(witness, statement, message, rng, orc) ==
    IF prove_checks(witness, statement) /= "Ok"
    THEN [result |-> "InvalidParameter", proof |-> NoProof, rng |-> rng,
          transcript |-> <<>>, xi |-> 0, secrets |-> NoSecrets]
    ELSE prove_respond(witness, statement,
                       prove_commit(witness, statement, message, rng), orc)

\* ----------------------------------------------------------- Proof::verify
\* verify_transcript with the Y items appended before the X items
verify_transcript_Y_first(proof, statement, message) ==
    LET t0 == AppendItem(TranscriptNew("Triptych proof"), "version", VERSION)
        t1 == IF message.some THEN AppendItem(t0, "message", message.bytes) ELSE t0
        t2 == AppendItem(t1, "params", statement.params)
        t3 == AppendItem(t2, "M", statement.M)
        tJ == AppendItem(t3, "J", statement.J)
        tA == AppendItem(tJ, "A", proof.A)
        tB == AppendItem(tA, "B", proof.B)
        tC == AppendItem(tB, "C", proof.C)
        tD == AppendItem(tC, "D", proof.D)
        tY == AppendEach(tD, "Y", proof.Y, 0)
    IN  AppendEach(tY, "X", proof.X, 0)

\* the transcript as rebuilt by verify
verify_transcript(proof, statement, message) ==
    LET t0 == AppendItem(TranscriptNew("Triptych proof"), "version", VERSION)
        t1 == IF message.some THEN AppendItem(t0, "message", message.bytes) ELSE t0
        t2 == AppendItem(t1, "params", statement.params)
        t3 == AppendItem(t2, "M", statement.M)
        tJ == AppendItem(t3, "J", statement.J)
        tA == AppendItem(tJ, "A", proof.A)
        tB == AppendItem(tA, "B", proof.B)
        tC == AppendItem(tB, "C", proof.C)
        tD == AppendItem(tC, "D", proof.D)
        tX == AppendEach(tD, "X", proof.X, 0)
    IN  AppendEach(tX, "Y", proof.Y, 0)

\* verify_f with the first column rebuilt as xi plus the row's sum
verify_f_plus(proof, params, xi) ==
    Vec([j \in 0..(params.m - 1) |->
        VCat(VOne(SAdd(xi, VSum(proof.f[j]))), proof.f[j])])

\* verify_f with the first column set to xi, the row's sum not subtracted
verify_f_no_sum(proof, params, xi) ==
    Vec([j \in 0..(params.m - 1) |-> VCat(VOne(xi), proof.f[j])])

\* the full f matrix that verify rebuilds; defined when proof.f has m rows
verify_f(proof, params, xi) ==
    Vec([j \in 0..(params.m - 1) |->
        VCat(VOne(SSub(xi, VSum(proof.f[j]))), proof.f[j])])

\* the sampled verifier weights
verify_weights(rng) ==
    [w1 |-> ScalarRandom(rng, 1), w2 |-> ScalarRandom(rng, 2), w4 |-> ScalarRandom(rng, 3)]

\* f_product with the first digit of k used for every row
f_product_first_digit(params, f, k) ==
    LET k_decomposed == decompose(params, k).digits
    IN  VProd([j \in 0..(params.m - 1) |-> f[j][k_decomposed[0]]])

\* f_product for index k; defined when every digit indexes its row
f_product(params, f, k) ==
    LET k_decomposed == decompose(params, k).digits
    IN  VProd([j \in 0..(params.m - 1) |-> f[j][k_decomposed[j]]])

\* the point iterator of the final check
verify_points(proof, statement) ==
    LET params == statement.params
    IN  VChain(<<VOne(get_G),
                 get_CommitmentG(params),
                 VOne(get_CommitmentH),
                 VOne(proof.A),
                 VOne(proof.B),
                 VOne(proof.C),
                 VOne(proof.D),
                 VOne(statement.J),
                 proof.X,
                 proof.Y,
                 statement.M,
                 VOne(get_U)>>)

\* the scalars pushed for CommitmentG: every item of every row of f in order
RECURSIVE flatten(_, _)
flatten(f, rows) ==
    IF rows = 0 THEN VEmpty ELSE VCat(flatten(f, rows - 1), f[rows - 1])

\* the scalar vector of the final check
verify_scalars(proof, statement, f, xi, w) ==
    LET params == statement.params
        m == params.m
        f_products == Vec([k \in 0..(get_N(params) - 1) |-> f_product(params, f, k)])
        U_scalar == VSum(f_products)
        flat == flatten(f, VLen(f))
    IN  VChain(<<VOne(SNeg(proof.z)),
                 [k \in DOMAIN flat |->
                     SAdd(SMul(w.w1, flat[k]),
                          SMul(SMul(w.w2, flat[k]), SSub(xi[1], flat[k])))],
                 VOne(SAdd(SMul(w.w1, proof.z_A), SMul(w.w2, proof.z_C))),
                 VOne(SNeg(w.w1)),
                 VOne(SMul(SNeg(w.w1), xi[1])),
                 VOne(SMul(SNeg(w.w2), xi[1])),
                 VOne(SNeg(w.w2)),
                 VOne(SMul(SNeg(w.w4), proof.z)),
                 [j \in 0..(m - 1) |-> SNeg(xi[j])],
                 [j \in 0..(m - 1) |-> SMul(SNeg(w.w4), xi[j])],
                 f_products,
                 VOne(SMul(w.w4, U_scalar))>>)

\* Proof::verify(proof, statement, message, rng), the transcript's challenge
\* function being orc.  result is "true", "false", or "panic" when the call
\* does not return.
verify(proof, statement, message, rng, orc) ==
    LET params == statement.params
        m == params.m
        t == verify_transcript(proof, statement, message)
        powers == xi_powers(orc, t, m)
        xi == powers.powers
        none == [w1 |-> 0, w2 |-> 0, w4 |-> 0]
        out(res, w, drawn, g) ==
            [result |-> res, w |-> w, drawn |-> drawn, rng |-> RngAfter(rng, drawn),
             xi |-> ChallengeScalar(orc, t), f |-> g,
             transcript |-> AppendItem(t, "xi", "challenge")]
    IN  IF ~powers.ok THEN out("false", none, 0, VEmpty)
        \* self.f[j as usize] for j in 0..m
        ELSE IF VLen(proof.f) < m THEN out("panic", none, 0, VEmpty)
        ELSE
        LET f == verify_f(proof, params, xi[1])
            w == verify_weights(rng)
        IN  \* f[j][k_decomposed[j]] for every k in 0..N
            IF \E j \in 0..(m - 1) : VLen(f[j]) < params.n
            THEN out("panic", w, 3, f)
            ELSE
            LET scalars == verify_scalars(proof, statement, f, xi, w)
                points == verify_points(proof, statement)
            IN  \* the multiscalar multiplication asserts equal lengths
                IF VLen(scalars) /= VLen(points) THEN out("panic", w, 3, f)
                ELSE IF MultiscalarMul(scalars, points) = PIdentity
                THEN out("true", w, 3, f)
                ELSE out("false", w, 3, f)

\* ------------------------------------------------------------------ state
VARIABLES
    phase,      \* "init", then "ready" once generate_data has run
    witness,    \* the Witness the prover holds
    statement,  \* the Statement currently at hand
    evil,       \* TRUE once an evil witness or statement has replaced the generated one
    proved,     \* the call of Proof::prove made, with its arguments and outcome
    verified,   \* the call of Proof::verify made, with its arguments and outcome
    oracle      \* the challenges the transcript has given so far

vars == <<phase, witness, statement, evil, proved, verified, oracle>>

Seeds == 0..(NumSeeds - 1)
\* the nonzero scalars
WitnessScalars == Scalars \ {0}
\* the witness scalar tried with index l
WitnessScalar(l) == (l % (q - 1)) + 1
ProverMessages == {NoMessage, SomeMessage(0)}
VerifierMessages == {NoMessage, SomeMessage(0)}

\* RistrettoPoint::random for entry i of an input set
RandomPoint(i) ==
    PAdd(PScale((i % (q - 1)) + 1, R1), PScale((i \div (q - 1)) % q, get_G))
\* the point an evil input set or linking tag is built from
EvilPoints == {PAdd(R1, get_U)}

NoParams == [n |-> 0, m |-> 0]
NoWitness == Witness(NoParams, 0, 0)
NoStatement == Statement(NoParams, VEmpty, PIdentity)
NotProved ==
    [called |-> FALSE, witness |-> NoWitness, statement |-> NoStatement,
     message |-> NoMessage, rng |-> 0,
     out |-> [result |-> "none", proof |-> NoProof, rng |-> 0, transcript |-> <<>>,
              xi |-> 0, secrets |-> NoSecrets]]
NotVerified ==
    [called |-> FALSE, statement |-> NoStatement, message |-> NoMessage, rng |-> 0,
     out |-> [result |-> "none", w |-> [w1 |-> 0, w2 |-> 0, w4 |-> 0], drawn |-> 0,
              rng |-> 0,
              xi |-> 0, f |-> VEmpty, transcript |-> <<>>]]

Init ==
    /\ phase = "init"
    /\ witness = NoWitness
    /\ statement = NoStatement
    /\ evil = FALSE
    /\ proved = NotProved
    /\ verified = NotVerified
    /\ oracle = <<>>

\* the oracle after the challenge of transcript t has been drawn as xi
Drawn(t, xi) == (AppendItem(t, "xi", "challenge") :> xi) @@ oracle
\* the values the challenge of transcript t can take
Draws(t) ==
    IF AppendItem(t, "xi", "challenge") \in DOMAIN oracle
    THEN {oracle[AppendItem(t, "xi", "challenge")]}
    ELSE Scalars

\* generate_data(n, m, rng) of the tests: a witness and its statement
generate_data ==
    /\ phase = "init"
    /\ \E params \in ParamSet :
         \E l \in 0..(get_N(params) - 1) :
            LET w == Witness(params, l, WitnessScalar(l))
                M == Vec([i \in 0..(get_N(params) - 1) |->
                         IF i = l THEN compute_verification_key(w) ELSE RandomPoint(i)])
            IN  /\ witness' = w
                /\ statement' = Statement(params, M, compute_linking_tag(w))
    /\ phase' = "ready"
    /\ UNCHANGED <<evil, proved, verified, oracle>>

\* test_evil_input_set: a statement with one entry of the input set replaced
evil_input_set ==
    /\ phase = "ready" /\ ~evil /\ ~proved.called
    /\ \E index \in {witness.l, (witness.l + 1) % get_N(witness.params)}, P \in EvilPoints :
         /\ P /= statement.M[index]
         /\ statement' = Statement(statement.params,
                                    [statement.M EXCEPT ![index] = P], statement.J)
    /\ evil' = TRUE
    /\ UNCHANGED <<phase, witness, proved, verified, oracle>>

\* test_evil_linking_tag: a statement with the linking tag replaced
evil_linking_tag ==
    /\ phase = "ready" /\ ~evil /\ ~proved.called
    /\ \E P \in EvilPoints \cup {PAdd(statement.J, statement.J)} :
         /\ P /= statement.J
         /\ statement' = Statement(statement.params, statement.M, P)
    /\ evil' = TRUE
    /\ UNCHANGED <<phase, witness, proved, verified, oracle>>

\* a statement over other parameters, with the same linking tag
evil_parameters ==
    /\ phase = "ready" /\ ~evil /\ ~verified.called
    /\ \E params \in ParamSet :
         /\ params /= statement.params
         /\ statement' = Statement(params,
                Vec([i \in 0..(get_N(params) - 1) |->
                    IF i \in DOMAIN statement.M THEN statement.M[i] ELSE RandomPoint(i)]),
                statement.J)
    /\ evil' = TRUE
    /\ UNCHANGED <<phase, witness, proved, verified, oracle>>

\* a witness that does not fit the statement: another scalar, index or parameters
evil_witness ==
    /\ phase = "ready" /\ ~evil /\ ~proved.called
    /\ \E params \in ParamSet, r \in WitnessScalars :
         \E l \in 0..(get_N(params) - 1) :
            /\ Witness(params, l, r) /= witness
            /\ \/ params = witness.params /\ l = witness.l
               \/ params = witness.params /\ r = witness.r
               \/ l = witness.l /\ r = witness.r
            /\ witness' = Witness(params, l, r)
    /\ evil' = TRUE
    /\ UNCHANGED <<phase, statement, proved, verified, oracle>>

\* Proof::prove(&witness, &statement, message, &mut rng)
Prove ==
    /\ phase = "ready" /\ ~proved.called
    /\ \E message \in ProverMessages, rng \in Seeds :
         IF prove_checks(witness, statement) /= "Ok"
         THEN /\ proved' = [called |-> TRUE, witness |-> witness,
                            statement |-> statement, message |-> message, rng |-> rng,
                            out |-> prove(witness, statement, message, rng, oracle)]
              /\ oracle' = oracle
         ELSE LET c == prove_commit(witness, statement, message, rng)
              IN  \E xi \in Draws(c.transcript) :
                     /\ oracle' = Drawn(c.transcript, xi)
                     /\ proved' = [called |-> TRUE, witness |-> witness,
                                   statement |-> statement, message |-> message,
                                   rng |-> rng,
                                   out |-> prove_respond(witness, statement, c,
                                                         Drawn(c.transcript, xi))]
    /\ UNCHANGED <<phase, witness, statement, evil, verified>>

\* proof.verify(&statement, message, &mut rng)
Verify ==
    /\ phase = "ready" /\ proved.out.result = "Ok" /\ ~verified.called
    /\ \E message \in VerifierMessages, rng \in Seeds :
         /\ evil => message = proved.message
         /\ LET t == verify_transcript(proved.out.proof, statement, message)
            IN  \E xi \in Draws(t) :
                   /\ oracle' = Drawn(t, xi)
                   /\ verified' = [called |-> TRUE, statement |-> statement,
                                   message |-> message, rng |-> rng,
                                   out |-> verify(proved.out.proof, statement, message,
                                                  rng, Drawn(t, xi))]
    /\ UNCHANGED <<phase, witness, statement, evil, proved>>

Next ==
    \/ generate_data
    \/ evil_input_set
    \/ evil_linking_tag
    \/ evil_parameters
    \/ evil_witness
    \/ Prove
    \/ Verify

Spec == Init /\ [][Next]_vars

\* ----------------------------------------------------------------- claims
\* the witness of a call of prove fits its statement
Fits(w, st) ==
    /\ w.params = st.params
    /\ w.params \in ParamSet
    /\ w.l \in DOMAIN st.M
    /\ st.M[w.l] = PScale(w.r, get_G)
    /\ PScale(w.r, st.J) = get_U
\* the challenge the transcript gave to the call whose outcome is out
ChallengeOf(out) == oracle[out.transcript]
\* verify was called with the statement and the message prove was called with
SameInputs ==
    /\ verified.called
    /\ verified.statement = proved.statement
    /\ verified.message = proved.message

\* C1 (completeness): whenever the witness fits the statement (same
\* parameters, M[l] = r*G, r*J = U) and the challenge is nonzero, prove
\* succeeds, and verify of its proof against the same statement and message
\* returns true, whatever weights the verifier draws.
C1_Completeness ==
    /\ (proved.called /\ Fits(proved.witness, proved.statement)
            /\ proved.out.transcript \in DOMAIN oracle /\ ChallengeOf(proved.out) /= 0)
        => proved.out.result = "Ok"
    /\ (proved.called /\ Fits(proved.witness, proved.statement)
            /\ proved.out.result /= "Ok")
        => (proved.out.result = "InvalidChallenge" /\ ChallengeOf(proved.out) = 0)
    /\ (proved.out.result = "Ok" /\ SameInputs) => verified.out.result = "true"
\* a proof made with a message was verified with nonzero weights
C1_Witness ==
    /\ proved.out.result = "Ok" /\ SameInputs
    /\ proved.message.some
    /\ verified.out.result = "true"
    /\ verified.out.w.w1 /= 0 /\ verified.out.w.w2 /= 0 /\ verified.out.w.w4 /= 0
    /\ proved.out.secrets.r_C /= 0 /\ proved.out.secrets.rho[1] /= 0
    /\ proved.witness.l > 0

\* C5 (prover precondition checks): when the witness's parameters differ
\* from the statement's, or l is no index of M, or M[l] /= r*G, or r*J /= U,
\* prove returns InvalidParameter with no proof, and the generator is in the
\* state it was handed in: nothing was drawn from it.
C5_PreconditionChecks ==
    (proved.called /\ ~Fits(proved.witness, proved.statement))
        => /\ proved.out.result = "InvalidParameter"
           /\ proved.out.proof = NoProof
           /\ proved.out.rng = proved.rng
           /\ proved.out.transcript = <<>>
\* prove was called with a linking tag J such that r*J /= U, all else fitting
C5_Witness ==
    /\ proved.called
    /\ proved.rng /= 0
    /\ proved.witness.params = proved.statement.params
    /\ proved.statement.M[proved.witness.l] = PScale(proved.witness.r, get_G)
    /\ PScale(proved.witness.r, proved.statement.J) /= get_U
    /\ proved.out.result = "InvalidParameter"

\* C6 (challenge-failure policy): when the challenge drawn from the
\* transcript is zero, prove returns InvalidChallenge without a proof, and
\* verify returns false without drawing its weights.
C6_ChallengeFailure ==
    /\ (proved.called /\ proved.out.transcript \in DOMAIN oracle
            /\ ChallengeOf(proved.out) = 0)
        => (proved.out.result = "InvalidChallenge" /\ proved.out.proof = NoProof)
    /\ (verified.called /\ ChallengeOf(verified.out) = 0)
        => /\ verified.out.result = "false"
           /\ verified.out.drawn = 0
           /\ verified.out.f = VEmpty
\* verify drew the challenge zero for a proof made with a nonzero challenge
C6_Witness ==
    /\ proved.out.result = "Ok"
    /\ verified.called
    /\ ChallengeOf(verified.out) = 0
    /\ verified.out.result = "false"

\* C7 (verification never throws): every call of verify returns a boolean.
C7_VerifyReturnsBoolean ==
    verified.called => verified.out.result \in {"true", "false"}

\* C8 (nonzero weights): the weights verify uses in the final equation are
\* all nonzero.
C8_WeightsNonzero ==
    (verified.called /\ verified.out.drawn > 0)
        => /\ verified.out.w.w1 /= 0
           /\ verified.out.w.w2 /= 0
           /\ verified.out.w.w4 /= 0

\* the labelled items the transcript should hold when the challenge has been
\* drawn, written out item by item
ExpectedItems(st, message, A, B, C, D, X, Y) ==
    <<[label |-> "dom-sep", item |-> "Triptych proof"],
      [label |-> "version", item |-> 0]>>
    \o (IF message.some THEN <<[label |-> "message", item |-> message.bytes]>> ELSE <<>>)
    \o <<[label |-> "params", item |-> st.params],
          [label |-> "M", item |-> st.M],
          [label |-> "J", item |-> st.J],
          [label |-> "A", item |-> A],
          [label |-> "B", item |-> B],
          [label |-> "C", item |-> C],
          [label |-> "D", item |-> D]>>
    \o [k \in 1..VLen(X) |-> [label |-> "X", item |-> X[k - 1]]]
    \o [k \in 1..VLen(Y) |-> [label |-> "Y", item |-> Y[k - 1]]]
    \o <<[label |-> "xi", item |-> "challenge"]>>
\* the labels of a transcript, in order
Labels(t) == [k \in 1..Len(t) |-> t[k].label]
\* the labels the transcript should hold for m entries of X and of Y
ExpectedLabels(some, m) ==
    <<"dom-sep", "version">>
    \o (IF some THEN <<"message">> ELSE <<>>)
    \o <<"params", "M", "J", "A", "B", "C", "D">>
    \o [k \in 1..m |-> "X"] \o [k \in 1..m |-> "Y"] \o <<"xi">>

\* C10 (transcript ordering): when prove or verify draws the challenge, its
\* transcript holds exactly version, the message if present, params, M, J,
\* A, B, C, D, X[0..m-1], Y[0..m-1] in this order, the challenge being drawn
\* last; so verify, given the statement and message of prove and the proof
\* prove made, has the transcript of prove and derives the challenge of prove.
C10_TranscriptOrdering ==
    /\ (proved.called /\ proved.out.result /= "InvalidParameter")
        => Labels(proved.out.transcript)
               = ExpectedLabels(proved.message.some, proved.statement.params.m)
    /\ proved.out.result = "Ok"
        => LET pf == proved.out.proof
           IN  proved.out.transcript
                   = ExpectedItems(proved.statement, proved.message,
                                   pf.A, pf.B, pf.C, pf.D, pf.X, pf.Y)
    /\ verified.called
        => LET pf == proved.out.proof
           IN  verified.out.transcript
                   = ExpectedItems(verified.statement, verified.message,
                                   pf.A, pf.B, pf.C, pf.D, pf.X, pf.Y)
    /\ (proved.out.result = "Ok" /\ SameInputs)
        => /\ verified.out.transcript = proved.out.transcript
           /\ verified.out.xi = proved.out.xi
\* verify drew the challenge of prove for a proof made with a message
C10_Witness ==
    /\ proved.out.result = "Ok" /\ SameInputs
    /\ proved.message.some
    /\ proved.statement.params.m > 2
    /\ verified.out.xi = proved.out.xi
    /\ verified.out.xi > 1

\* C11 (f reconstruction round trip): a proof made by prove stores, for each
\* of its m rows, the n-1 entries sigma[j][i]*xi + a[j][i], i in 1..n-1, and
\* the rows of a sum to zero; verify rebuilds each row as xi minus the sum of
\* the stored entries followed by the stored entries, so every rebuilt row
\* sums to the verifier's xi, and for the statement and message of prove the
\* rebuilt matrix is sigma*xi + a in all m x n entries.
C11_FReconstruction ==
    /\ proved.out.result = "Ok"
        => LET params == proved.statement.params
               sec == proved.out.secrets
               pf == proved.out.proof
           IN  /\ DOMAIN pf.f = 0..(params.m - 1)
               /\ \A j \in 0..(params.m - 1) :
                    /\ DOMAIN pf.f[j] = 0..(params.n - 2)
                    /\ VSum(sec.a[j]) = 0
                    /\ \A i \in 1..(params.n - 1) :
                         pf.f[j][i - 1]
                             = SAdd(SMul(sec.sigma[j][i], proved.out.xi), sec.a[j][i])
    /\ (verified.called /\ verified.out.f /= VEmpty)
        => LET pf == proved.out.proof
               f == verified.out.f
           IN  /\ DOMAIN f = 0..(verified.statement.params.m - 1)
               /\ \A j \in DOMAIN f :
                    /\ DOMAIN f[j] = 0..VLen(pf.f[j])
                    /\ f[j][0] = SSub(verified.out.xi, VSum(pf.f[j]))
                    /\ \A i \in DOMAIN pf.f[j] : f[j][i + 1] = pf.f[j][i]
                    /\ VSum(f[j]) = verified.out.xi
    /\ (proved.out.result = "Ok" /\ SameInputs)
        => LET params == proved.statement.params
               sec == proved.out.secrets
           IN  /\ verified.out.f /= VEmpty
               /\ \A j \in 0..(params.m - 1) : \A i \in 0..(params.n - 1) :
                    verified.out.f[j][i]
                        = SAdd(SMul(sec.sigma[j][i], proved.out.xi), sec.a[j][i])
\* verify rebuilt the f matrix of a proof whose masks and stored entries are
\* not all zero, once under the challenge of prove
C11_Witness ==
    /\ proved.out.result = "Ok" /\ SameInputs
    /\ verified.out.f /= VEmpty
    /\ \E j \in DOMAIN verified.out.f :
         /\ proved.out.secrets.a[j][0] /= 0
         /\ VSum(proved.out.proof.f[j]) /= 0
         /\ verified.out.f[j][0] /= verified.out.xi
    /\ \E j \in DOMAIN verified.out.f : proved.out.secrets.sigma[j][0] = 0

\* prove has returned, having come as far as computing the coefficient
\* vectors p; verify, which leaves the record of that call as it is, has not
\* been called yet
ProveComputedP ==
    /\ proved.called
    /\ ~verified.called
    /\ proved.out.result \in {"Ok", "InvalidChallenge"}
\* the coefficient vector p[k] of the call of prove
ComputedP(k) ==
    p_coefficients(proved.statement.params, proved.out.secrets.a,
                   proved.out.secrets.sigma, k)

\* C12 (polynomial degree): each of the N coefficient vectors p[k] that prove
\* computes has m+1 entries, and its entry of degree m is 1 for k = l, the
\* witness index, and 0 for every other k.
C12_PolynomialDegree ==
    ProveComputedP
        => LET params == proved.statement.params
           IN  \A k \in 0..(get_N(params) - 1) :
                   /\ DOMAIN ComputedP(k) = 0..params.m
                   /\ ComputedP(k)[params.m] = delta(k, proved.witness.l)
\* prove computed p for a witness index l > 0 with masks that give some
\* p[k], k /= l, a nonzero coefficient of degree m-1
C12_Witness ==
    /\ ProveComputedP
    /\ proved.witness.l > 0
    /\ \E k \in 0..(get_N(proved.statement.params) - 1) :
         /\ k /= proved.witness.l
         /\ ComputedP(k)[proved.statement.params.m - 1] /= 0
         /\ ComputedP(k)[0] /= 0

RECURSIVE CoefficientsBefore(_, _)
\* the coefficient vector for index k of the call of prove as it stands before
\* round j of the convolution loop (after the loop, for j = m)
CoefficientsBefore(k, j) ==
    LET params == proved.statement.params
        a == proved.out.secrets.a
        sigma == proved.out.secrets.sigma
        k_decomposed == decompose(params, k).digits
    IN  IF j <= 1 THEN convolve_initial(params, a, sigma, k_decomposed)
        ELSE convolve_round(params, a, sigma, k_decomposed,
                            CoefficientsBefore(k, j - 1), j - 1)
\* whether j is in the subset of 0..m-1 numbered s
InSubset(s, j) == (s \div Pow(2, j)) % 2 = 1
\* the coefficient of x^c of the product over j in 0..m-1 of
\* (sigma[j][d_j]*x + a[j][d_j]), d the digits of k: the sum, over the
\* subsets S of 0..m-1 with c members, of the product of sigma[j][d_j] over S
\* and of a[j][d_j] over the rest
ProductCoefficient(k, c) ==
    LET params == proved.statement.params
        m == params.m
        d == decompose(params, k).digits
        sigma_d == Vec([j \in 0..(m - 1) |-> proved.out.secrets.sigma[j][d[j]]])
        a_d == Vec([j \in 0..(m - 1) |-> proved.out.secrets.a[j][d[j]]])
    IN  VSum([s \in 0..(Pow(2, m) - 1) |->
                IF Cardinality({j \in 0..(m - 1) : InSubset(s, j)}) = c
                THEN VProd([j \in 0..(m - 1) |->
                               IF InSubset(s, j) THEN sigma_d[j] ELSE a_d[j]])
                ELSE 0])

\* C13 (convolution by rotation is exact): in prove, for every k and every
\* round j in 1..m-1 of the convolution loop, the coefficient at index m is
\* zero before the vector is rotated right by one, and the vector p[k] left by
\* the loop holds the coefficients of the product over j in 0..m-1 of
\* (sigma[j][d_j]*x + a[j][d_j]), d being the base-n digits of k.
C13_ConvolutionExact ==
    ProveComputedP
        => LET params == proved.statement.params
           IN  \A k \in 0..(get_N(params) - 1) :
                   LET p_k == ComputedP(k)
                   IN  /\ \A j \in 1..(params.m - 1) :
                            CoefficientsBefore(k, j)[params.m] = 0
                       /\ p_k = CoefficientsBefore(k, params.m)
                       /\ \A c \in 0..params.m : p_k[c] = ProductCoefficient(k, c)
\* prove ran two rounds of the loop (m = 3) on a vector whose coefficients
\* below the highest were all nonzero before the last round
C13_Witness ==
    /\ ProveComputedP
    /\ proved.statement.params.m = 3
    /\ \E k \in 0..(get_N(proved.statement.params) - 1) :
         /\ \A c \in 0..2 : CoefficientsBefore(k, 2)[c] /= 0
         /\ ComputedP(k)[1] /= 0
         /\ ComputedP(k)[2] /= 0

\* verify came as far as its final equation: the proof's f had m rows of n-1
\* entries
VerifyEvaluated == verified.called /\ verified.out.result \in {"true", "false"}
                       /\ verified.out.f /= VEmpty
\* the scalars of the final equation of the call of verify
VerifyScalars ==
    LET m == verified.statement.params.m
        xi == Vec([i \in 0..m |-> Pow(verified.out.xi, i) % q])
    IN  verify_scalars(proved.out.proof, verified.statement, verified.out.f, xi,
                       verified.out.w)

\* C14 (scalar of U): whenever verify evaluates its final equation, for a
\* valid proof or not, the last scalar, the one applied to U, is w4 * xi^m,
\* xi being the verifier's challenge.
C14_UScalar ==
    VerifyEvaluated
        => LET scalars == VerifyScalars
               m == verified.statement.params.m
           IN  scalars[VLen(scalars) - 1]
                   = SMul(verified.out.w.w4, Pow(verified.out.xi, m) % q)
\* verify evaluated the equation with w4 /= 0 under a challenge other than
\* the prover's, for stored f entries that are not all zero, and rejected
C14_Witness ==
    /\ VerifyEvaluated
    /\ verified.out.result = "false"
    /\ verified.out.w.w4 /= 0
    /\ verified.out.xi /= proved.out.xi
    /\ verified.out.xi > 1
    /\ \E j \in DOMAIN verified.out.f : VSum(proved.out.proof.f[j]) /= 0

\* what xi_powers returned in the call whose outcome is out, made with m = m:
\* xi_powers applied to the transcript as it stood before the challenge
XiPowersOf(out, m) ==
    xi_powers(oracle, SubSeq(out.transcript, 1, Len(out.transcript) - 1), m)
\* xi_powers(transcript, m) returned r for the challenge xi as C15 says
XiPowersAsSpecified(r, xi, m) ==
    /\ r.ok <=> (\A i \in 0..m : Pow(xi, i) % q /= 0)
    /\ r.ok <=> xi /= 0
    /\ r.ok => /\ DOMAIN r.powers = 0..m
               /\ r.powers[0] = 1
               /\ r.powers[1] = xi
               /\ \A i \in 0..m : r.powers[i] = Pow(xi, i) % q /\ r.powers[i] /= 0
    /\ ~r.ok => r.powers = VEmpty

\* C15 (xi_powers): in every call of prove and of verify that draws the
\* challenge xi, xi_powers returns the m+1 scalars xi^0 = 1, xi^1 = xi, ...,
\* xi^m, all nonzero, when no power xi^i, i in 0..m, is zero, and fails
\* otherwise; prove then returns InvalidChallenge, and in no other case.
C15_XiPowers ==
    /\ (proved.called /\ proved.out.result /= "InvalidParameter")
        => LET m == proved.statement.params.m
               r == XiPowersOf(proved.out, m)
           IN  /\ XiPowersAsSpecified(r, ChallengeOf(proved.out), m)
               /\ proved.out.result = "InvalidChallenge" <=> ~r.ok
    /\ verified.called
        => LET m == verified.statement.params.m
           IN  XiPowersAsSpecified(XiPowersOf(verified.out, m),
                                   ChallengeOf(verified.out), m)
\* xi_powers succeeded in prove with m = 3 for a challenge other than 0 and 1,
\* and failed in verify for the challenge 0
C15_Witness ==
    /\ proved.out.result = "Ok"
    /\ proved.statement.params.m = 3
    /\ ChallengeOf(proved.out) > 1
    /\ XiPowersOf(proved.out, 3).ok
    /\ verified.called
    /\ ChallengeOf(verified.out) = 0
    /\ ~XiPowersOf(verified.out, verified.statement.params.m).ok
====
